---------------------------- MODULE Spec2Model ----------------------------
(***************************************************************************)
(* Model of the two Blender add-ons of this repository:                    *)
(*                                                                         *)
(*   focus_similar_fcurves.py    GRAPH_OT_focus_and_hide_fcurves.execute   *)
(*   preview_world_to_render.py  WORLD_OT_copy_shading_hdri.execute        *)
(*                                                                         *)
(* A string is a sequence of one-character strings.  Four specifications   *)
(* share the module:                                                       *)
(*   Spec       one invocation of the curve-focus operator                 *)
(*   SpecWorld  one invocation of the lighting-copy operator               *)
(*   SpecKey    the name-format derivation applied to arbitrary paths      *)
(*   SpecPair   the name-format derivation applied to two curves whose     *)
(*              paths differ in one bracketed or parenthesized substring   *)
(***************************************************************************)
EXTENDS Naturals, Sequences, FiniteSets

VARIABLES
    \* ---- Spec: host state read and written by the curve-focus operator
    select,      \* fcurve.select of every curve
    hide,        \* fcurve.hide of every curve
    selected_fcurves_in_editor,    \* context.selected_editable_fcurves
    currently_visible_fcurves,     \* context.visible_fcurves
    areas,       \* context.screen.areas
    \* ---- Spec: locals of execute
    pc, target_fcurve_name_formats, fcurves_to_show, fcurves_to_hide,
    pos,         \* the position of the for loop in currently_visible_fcurves
    graph_editor_area, reports, result,
    \* ---- Spec: history
    ops,         \* the host operators called so far, in call order
    written,     \* the curves selectCurve has written
    select0,     \* select at invocation
    hide0,       \* hide at invocation
    \* ---- SpecWorld: host state read and written by the lighting-copy operator
    studio_light,    \* shading.studio_light
    rotate_z,        \* shading.studiolight_rotate_z
    blur,            \* shading.studiolight_background_blur
    studio_lights,   \* bpy.context.preferences.studio_lights
    disk,            \* the paths os.path.exists answers True for
    unreadable,      \* the paths bpy.data.images.load raises on
    images,          \* bpy.data.images
    worlds,          \* bpy.data.worlds
    scene_world,     \* context.scene.world: a position in worlds, 0 for None
    \* ---- SpecWorld: locals of execute
    wpc, studio_light_path, world, node, wreports, wresult,
    \* ---- SpecWorld: history
    worlds0, scene_world0,
    \* ---- SpecKey
    kpc, kpath, kindex, key1, key2,
    \* ---- SpecPair
    ppc, pathP, pathQ, indexP, indexQ, keyP, keyQ

keyVars == <<kpc, kpath, kindex, key1, key2>>
pairVars == <<ppc, pathP, pathQ, indexP, indexQ, keyP, keyQ>>
hostVars ==
    <<select, hide, selected_fcurves_in_editor, currently_visible_fcurves, areas>>
contextVars == <<selected_fcurves_in_editor, currently_visible_fcurves, areas>>
scanVars ==
    <<target_fcurve_name_formats, fcurves_to_show, fcurves_to_hide, pos,
      graph_editor_area>>
localVars == <<pc, scanVars, reports, result>>
histVars == <<ops, written, select0, hide0>>
focusVars == <<hostVars, localVars, histVars>>
shadingVars == <<studio_light, rotate_z, blur, studio_lights, disk, unreadable>>
dataVars == <<images, worlds, scene_world>>
wLocalVars == <<wpc, studio_light_path, world, node, wreports, wresult>>
wHistVars == <<worlds0, scene_world0>>
worldVars == <<shadingVars, dataVars, wLocalVars, wHistVars>>
vars == <<focusVars, worldVars, keyVars, pairVars>>

\* What the actions of one specification leave alone.
notFocus == <<worldVars, keyVars, pairVars>>
notWorld == <<focusVars, keyVars, pairVars>>
notKey == <<focusVars, worldVars, pairVars>>
notPair == <<focusVars, worldVars, keyVars>>

(***************************************************************************)
(* Bounds of the model.                                                    *)
(***************************************************************************)
MaxLen == 4
MaxIndex == 1
MaxNameLen == 2
NumCurves == 3
MaxParam == 1

(***************************************************************************)
(* Characters.  "\n" is kept apart because '.' of the pattern does not     *)
(* match it.                                                               *)
(***************************************************************************)
Alphabet == {"a", "[", "]", "(", ")", "\n"}

RECURSIVE StringsUpTo(_, _)
StringsUpTo(A, n) ==
    IF n = 0 THEN {<<>>}
    ELSE LET shorter == StringsUpTo(A, n - 1)
         IN  shorter \cup {Append(s, c) : s \in shorter, c \in A}

(***************************************************************************)
(* re.sub(r'\[.*?\]|\(.*?\)', '', s)                                       *)
(***************************************************************************)
\* The end of the non-greedy match of  open .*? close  that starts at i:
\* the first close after i, with no line break in between; 0 when none.
FirstClose(s, i, close) ==
    LET ends == {j \in (i + 1)..Len(s) :
                    /\ s[j] = close
                    /\ \A k \in (i + 1)..(j - 1) : s[k] # close /\ s[k] # "\n"}
    IN  IF ends = {} THEN 0 ELSE CHOOSE j \in ends : TRUE

\* A variant whose pattern lost its first alternative: r'\(.*?\)'.
MatchEndParenOnly(s, i) ==
    IF s[i] = "(" /\ FirstClose(s, i, ")") # 0 THEN FirstClose(s, i, ")") ELSE 0

\* The end of the match of strip_pattern at position i, 0 when it does not
\* match there.  The alternatives are tried left to right.
MatchEnd(s, i) ==
    IF s[i] = "[" /\ FirstClose(s, i, "]") # 0 THEN FirstClose(s, i, "]")
    ELSE IF s[i] = "(" /\ FirstClose(s, i, ")") # 0 THEN FirstClose(s, i, ")")
    ELSE 0

RECURSIVE StripFrom(_, _)
StripFrom(s, i) ==
    IF i > Len(s) THEN <<>>
    ELSE IF MatchEnd(s, i) # 0 THEN StripFrom(s, MatchEnd(s, i) + 1)
    ELSE <<s[i]>> \o StripFrom(s, i + 1)

Strip(s) == StripFrom(s, 1)

(***************************************************************************)
(* str(array_index): the decimal digits of a natural number.               *)
(***************************************************************************)
Digit(d) == <<"0", "1", "2", "3", "4", "5", "6", "7", "8", "9">>[d + 1]

RECURSIVE IndexStr(_)
IndexStr(n) ==
    IF n < 10 THEN <<Digit(n)>> ELSE IndexStr(n \div 10) \o <<Digit(n % 10)>>

\* f"{re.sub(strip_pattern, '', fcurve.data_path)}[{fcurve.array_index}]"
NameFormat(data_path, array_index) ==
    Strip(data_path) \o <<"[">> \o IndexStr(array_index) \o <<"]">>

(***************************************************************************)
(* The curves of the Graph Editor.  data_path and array_index are fixed;   *)
(* the first three are the curves of the scenario bone["A"].location[0],   *)
(* bone["B"].location[0], bone["A"].location[1].                           *)
(***************************************************************************)
Curves == 1..NumCurves

BoneA == <<"b", "[", "\"", "A", "\"", "]", ".", "l">>
BoneB == <<"b", "[", "\"", "B", "\"", "]", ".", "l">>
Plain == <<"l">>

FCurveTable ==
    << [data_path |-> BoneA, array_index |-> 0],
       [data_path |-> BoneB, array_index |-> 0],
       [data_path |-> BoneA, array_index |-> 1],
       [data_path |-> Plain, array_index |-> 1],
       [data_path |-> Plain, array_index |-> 0] >>

FCurve(c) == FCurveTable[((c - 1) % Len(FCurveTable)) + 1]

\* current_fcurve_name_format of a curve
CurveFormat(c) == NameFormat(FCurve(c).data_path, FCurve(c).array_index)

\* The elements of a set of curves in the host's order.
RECURSIVE SeqOf(_)
SeqOf(S) ==
    IF S = {} THEN <<>>
    ELSE LET m == CHOOSE x \in S : \A y \in S : x <= y
         IN  <<m>> \o SeqOf(S \ {m})

Range(q) == {q[k] : k \in 1..Len(q)}

(***************************************************************************)
(* Screens: no Graph Editor area; a Graph Editor area with a WINDOW        *)
(* region; a Graph Editor area without one ahead of one that has it.       *)
(***************************************************************************)
Screens ==
    { << [type |-> "VIEW_3D", regions |-> <<"HEADER", "WINDOW">>] >>,
      << [type |-> "VIEW_3D", regions |-> <<"HEADER", "WINDOW">>],
         [type |-> "GRAPH_EDITOR", regions |-> <<"HEADER", "WINDOW">>] >>,
      << [type |-> "GRAPH_EDITOR", regions |-> <<"HEADER">>],
         [type |-> "GRAPH_EDITOR", regions |-> <<"WINDOW">>] >> }

\* The variables of a specification that is not running.
PairIdle ==
    /\ ppc = "idle" /\ pathP = <<>> /\ pathQ = <<>>
    /\ indexP = 0 /\ indexQ = 0 /\ keyP = <<>> /\ keyQ = <<>>

KeyIdle ==
    /\ kpc = "idle" /\ kpath = <<>> /\ kindex = 0 /\ key1 = <<>> /\ key2 = <<>>

FocusIdle ==
    /\ select = <<>> /\ hide = <<>> /\ areas = <<>>
    /\ selected_fcurves_in_editor = <<>> /\ currently_visible_fcurves = <<>>
    /\ pc = "idle" /\ target_fcurve_name_formats = <<>>
    /\ fcurves_to_show = <<>> /\ fcurves_to_hide = <<>> /\ pos = 0
    /\ graph_editor_area = 0 /\ reports = <<>> /\ result = "NONE"
    /\ ops = <<>> /\ written = {} /\ select0 = <<>> /\ hide0 = <<>>

WorldIdle ==
    /\ studio_light = "" /\ rotate_z = 0 /\ blur = 0 /\ studio_lights = <<>>
    /\ disk = {} /\ unreadable = {} /\ images = <<>> /\ worlds = <<>>
    /\ scene_world = 0 /\ wpc = "idle" /\ studio_light_path = <<>>
    /\ world = 0 /\ node = <<>> /\ wreports = <<>> /\ wresult = "NONE"
    /\ worlds0 = <<>> /\ scene_world0 = 0

(***************************************************************************)
(* Init: any flags; the context lists hold curves that are not hidden, and *)
(* the selection holds selected ones.  The two lists are separate context  *)
(* members and are drawn independently.                                    *)
(***************************************************************************)
Init ==
    /\ select \in [Curves -> BOOLEAN]
    /\ hide \in [Curves -> BOOLEAN]
    /\ \E S \in SUBSET {c \in Curves : select[c] /\ ~hide[c]} :
          selected_fcurves_in_editor = SeqOf(S)
    /\ \E V \in SUBSET {c \in Curves : ~hide[c]} :
          currently_visible_fcurves = SeqOf(V)
    /\ areas \in Screens
    /\ pc = "start"
    /\ target_fcurve_name_formats = <<>>
    /\ fcurves_to_show = <<>> /\ fcurves_to_hide = <<>>
    /\ pos = 0 /\ graph_editor_area = 0
    /\ reports = <<>> /\ result = "NONE"
    /\ ops = <<>> /\ written = {}
    /\ select0 = select /\ hide0 = hide
    /\ WorldIdle /\ KeyIdle /\ PairIdle

Report(level, msg) == reports' = Append(reports, <<level, msg>>)

Return(r) == result' = r /\ pc' = "done"

(***************************************************************************)
(* Host operators, with the effect the host documents for them.            *)
(***************************************************************************)
\* bpy.ops.graph.reveal(select=sel): every hidden curve becomes visible and
\* gets select = sel.
GraphReveal(sel) ==
    /\ select' = [c \in Curves |-> IF hide[c] THEN sel ELSE select[c]]
    /\ hide' = [c \in Curves |-> FALSE]

\* bpy.ops.graph.hide(unselected=True): every unselected curve is hidden,
\* every selected curve is shown.
GraphHideUnselected ==
    /\ hide' = [c \in Curves |-> ~select[c]]
    /\ UNCHANGED select

(***************************************************************************)
(* execute, lines 23-34: no selection.                                     *)
(***************************************************************************)
CheckSelection ==
    /\ pc = "start"
    /\ IF selected_fcurves_in_editor = <<>>
       THEN Report("INFO", "no_selection") /\ pc' = "reveal_all"
       ELSE pc' = "targets" /\ UNCHANGED reports
    /\ UNCHANGED <<hostVars, scanVars, result, histVars, notFocus>>

RevealAll ==
    /\ pc = "reveal_all"
    /\ GraphReveal(FALSE)
    /\ ops' = Append(ops, "reveal(select=False)")
    /\ pc' = "view_all_revealed"
    /\ UNCHANGED <<contextVars, scanVars, reports, result, written, select0,
                   hide0, notFocus>>

ViewAllRevealed ==
    /\ pc = "view_all_revealed"
    /\ ops' = Append(ops, "view_all")
    /\ Return("CANCELLED")
    /\ UNCHANGED <<hostVars, scanVars, reports, written, select0, hide0,
                   notFocus>>

\* One of the two host calls raises: the except clause reports, and
\* execute returns CANCELLED.
RevealAllFails ==
    /\ pc \in {"reveal_all", "view_all_revealed"}
    /\ Report("ERROR", "failed")
    /\ Return("CANCELLED")
    /\ UNCHANGED <<hostVars, scanVars, histVars, notFocus>>

(***************************************************************************)
(* execute, lines 37-68: target keys, scan, partition.                     *)
(***************************************************************************)
CollectTargets ==
    /\ pc = "targets"
    /\ target_fcurve_name_formats' =
          [k \in 1..Len(selected_fcurves_in_editor) |->
              CurveFormat(selected_fcurves_in_editor[k])]
    /\ Report("INFO", "targets")
    /\ pc' = "visible"
    /\ UNCHANGED <<hostVars, fcurves_to_show, fcurves_to_hide, pos,
                   graph_editor_area, result, histVars, notFocus>>

CheckVisible ==
    /\ pc = "visible"
    /\ IF currently_visible_fcurves = <<>>
       THEN Report("WARNING", "no_fcurves") /\ Return("CANCELLED") /\ UNCHANGED pos
       ELSE pc' = "scan" /\ pos' = 1 /\ UNCHANGED <<reports, result>>
    /\ UNCHANGED <<hostVars, target_fcurve_name_formats, fcurves_to_show,
                   fcurves_to_hide, graph_editor_area, histVars, notFocus>>

\* A variant that looks at the first target only.
MatchesFirstTarget(c) == CurveFormat(c) = target_fcurve_name_formats[1]

\* if current_fcurve_name_format in target_fcurve_name_formats
Matches(c) == CurveFormat(c) \in Range(target_fcurve_name_formats)

\* A variant that drops its argument and always selects.
SelectCurveAlways(c, sel) == [select EXCEPT ![c] = TRUE]

\* A variant for call sites that pass the two flags the wrong way round.
SelectCurveInverted(c, sel) == [select EXCEPT ![c] = ~sel]

\* selectCurve: fcurve.select = select
SelectCurve(c, sel) == [select EXCEPT ![c] = sel]

\* One iteration of the for loop, selectCurve included.
ScanStep ==
    /\ pc = "scan"
    /\ pos <= Len(currently_visible_fcurves)
    /\ LET c == currently_visible_fcurves[pos]
       IN  /\ IF Matches(c)
              THEN /\ fcurves_to_show' = Append(fcurves_to_show, c)
                   /\ UNCHANGED fcurves_to_hide
              ELSE /\ fcurves_to_hide' = Append(fcurves_to_hide, c)
                   /\ UNCHANGED fcurves_to_show
           /\ select' = SelectCurve(c, Matches(c))
           /\ written' = written \cup {c}
    /\ pos' = pos + 1
    /\ UNCHANGED <<hide, contextVars, pc, target_fcurve_name_formats,
                   graph_editor_area, reports, result, ops, select0, hide0,
                   notFocus>>

\* A variant without the early return for an empty fcurves_to_show.
CheckShowNoReturn ==
    /\ pc = "scan"
    /\ pos > Len(currently_visible_fcurves)
    /\ pc' = "area"
    /\ UNCHANGED <<hostVars, scanVars, reports, result, histVars, notFocus>>

CheckShow ==
    /\ pc = "scan"
    /\ pos > Len(currently_visible_fcurves)
    /\ IF fcurves_to_show = <<>>
       THEN Report("INFO", "no_match") /\ Return("CANCELLED")
       ELSE pc' = "area" /\ UNCHANGED <<reports, result>>
    /\ UNCHANGED <<hostVars, scanVars, histVars, notFocus>>

(***************************************************************************)
(* execute, lines 70-81: the Graph Editor area and its WINDOW region.      *)
(***************************************************************************)
GraphAreas == {k \in 1..Len(areas) : areas[k].type = "GRAPH_EDITOR"}

\* The first element of a non-empty set of positions.
First(S) == CHOOSE x \in S : \A y \in S : x <= y

FindArea ==
    /\ pc = "area"
    /\ IF GraphAreas = {}
       THEN Report("WARNING", "no_area") /\ Return("CANCELLED")
            /\ UNCHANGED graph_editor_area
       ELSE graph_editor_area' = First(GraphAreas) /\ pc' = "region"
            /\ UNCHANGED <<reports, result>>
    /\ UNCHANGED <<hostVars, target_fcurve_name_formats, fcurves_to_show,
                   fcurves_to_hide, pos, histVars, notFocus>>

WindowRegions(a) ==
    {k \in 1..Len(areas[a].regions) : areas[a].regions[k] = "WINDOW"}

\* next(r for r in graph_editor_area.regions if r.type == 'WINDOW'), outside
\* the try: an exhausted generator raises StopIteration out of execute.
FindRegion ==
    /\ pc = "region"
    /\ IF WindowRegions(graph_editor_area) = {}
       THEN Return("StopIteration")
       ELSE pc' = "reveal" /\ UNCHANGED result
    /\ UNCHANGED <<hostVars, scanVars, reports, histVars, notFocus>>

(***************************************************************************)
(* execute, lines 83-102: the host operators under temp_override.          *)
(***************************************************************************)
Reveal ==
    /\ pc = "reveal"
    /\ GraphReveal(TRUE)
    /\ ops' = Append(ops, "reveal")
    /\ pc' = "hide"
    /\ UNCHANGED <<contextVars, scanVars, reports, result, written, select0,
                   hide0, notFocus>>

HideUnselected ==
    /\ pc = "hide"
    /\ GraphHideUnselected
    /\ ops' = Append(ops, "hide(unselected=True)")
    /\ pc' = "view_all"
    /\ UNCHANGED <<contextVars, scanVars, reports, result, written, select0,
                   hide0, notFocus>>

ViewAll ==
    /\ pc = "view_all"
    /\ ops' = Append(ops, "view_all")
    /\ pc' = "finish"
    /\ UNCHANGED <<hostVars, scanVars, reports, result, written, select0,
                   hide0, notFocus>>

\* temp_override or one of the three host calls raises.
GraphOperatorFails ==
    /\ pc \in {"reveal", "hide", "view_all"}
    /\ Report("ERROR", "failed")
    /\ Return("CANCELLED")
    /\ UNCHANGED <<hostVars, scanVars, histVars, notFocus>>

Finish ==
    /\ pc = "finish"
    /\ Report("INFO", "focused")
    /\ Return("FINISHED")
    /\ UNCHANGED <<hostVars, scanVars, histVars, notFocus>>

Next ==
    \/ CheckSelection \/ RevealAll \/ ViewAllRevealed \/ RevealAllFails
    \/ CollectTargets \/ CheckVisible \/ ScanStep \/ CheckShow
    \/ FindArea \/ FindRegion
    \/ Reveal \/ HideUnselected \/ ViewAll \/ GraphOperatorFails \/ Finish

Spec == Init /\ [][Next]_vars

(***************************************************************************)
(* Claims about the curve-focus operator.                                  *)
(***************************************************************************)
ScanDone == pos > Len(currently_visible_fcurves)

Returned(r) == pc = "done" /\ result = r

LastReport == reports[Len(reports)]

IsPrefix(a, b) == Len(a) <= Len(b) /\ a = SubSeq(b, 1, Len(a))

\* The visible curves whose key is the key of a selected curve.
KeyOfSelected(c) ==
    \E k \in 1..Len(selected_fcurves_in_editor) :
        CurveFormat(c) = CurveFormat(selected_fcurves_in_editor[k])

\* C1: once the scan loop has finished, fcurves_to_show and fcurves_to_hide
\* are disjoint, their union is the visible set, and a visible curve is in
\* fcurves_to_show iff its key is the key of a selected curve; in the
\* scenario (selection bone["A"].location[0], visible also
\* bone["B"].location[0] and bone["A"].location[1]) show is the two index-0
\* curves and hide the index-1 curve.
C1_Partition ==
    ScanDone =>
        /\ Range(fcurves_to_show) \cap Range(fcurves_to_hide) = {}
        /\ Range(fcurves_to_show) \cup Range(fcurves_to_hide)
              = Range(currently_visible_fcurves)
        /\ Len(fcurves_to_show) + Len(fcurves_to_hide) = Len(currently_visible_fcurves)
        /\ \A c \in Range(currently_visible_fcurves) :
              c \in Range(fcurves_to_show) <=> KeyOfSelected(c)
        /\ (selected_fcurves_in_editor = <<1>> /\ currently_visible_fcurves = <<1, 2, 3>>)
              => (fcurves_to_show = <<1, 2>> /\ fcurves_to_hide = <<3>>)

\* The scenario has run to the end of the scan.
C1_Witness ==
    /\ ScanDone
    /\ selected_fcurves_in_editor = <<1>> /\ currently_visible_fcurves = <<1, 2, 3>>
    /\ fcurves_to_show = <<1, 2>> /\ fcurves_to_hide = <<3>>

\* C4 as stated: every invocation that returns CANCELLED leaves the select
\* flag and the hidden flag of every curve as they were at invocation.
C4_CancelledChangesNothing ==
    Returned("CANCELLED") => (select = select0 /\ hide = hide0)

\* C4 as amended: a CANCELLED return for an empty visible set leaves every
\* flag as it was; a CANCELLED return for no matching curve or no Graph
\* Editor area leaves the hidden flags and the select flags outside the
\* visible set as they were, and the visible curves selected exactly when
\* they match a target key (none of them, when none matches).
C4_CancelledEffects ==
    Returned("CANCELLED") =>
        /\ LastReport = <<"WARNING", "no_fcurves">>
              => (select = select0 /\ hide = hide0)
        /\ LastReport \in {<<"INFO", "no_match">>, <<"WARNING", "no_area">>}
              => /\ hide = hide0
                 /\ \A c \in Curves \ Range(currently_visible_fcurves) :
                       select[c] = select0[c]
                 /\ \A c \in Range(currently_visible_fcurves) :
                       select[c] <=> KeyOfSelected(c)
        /\ LastReport = <<"INFO", "no_match">>
              => \A c \in Range(currently_visible_fcurves) : ~select[c]

\* A no-match cancellation over a visible set that held a selected curve.
C4_Witness ==
    /\ Returned("CANCELLED")
    /\ LastReport = <<"INFO", "no_match">>
    /\ \E c \in Range(currently_visible_fcurves) : select0[c] /\ ~select[c]

\* C6: with a non-empty selection and a matching visible curve, a screen
\* with no Graph Editor area, or whose Graph Editor area has no WINDOW
\* region, makes the operator report a WARNING and return CANCELLED; every
\* invocation ends in FINISHED or CANCELLED.
C6_MissingRegionWarns ==
    pc = "done" =>
        /\ result \in {"FINISHED", "CANCELLED"}
        /\ ( /\ selected_fcurves_in_editor # <<>>
             /\ fcurves_to_show # <<>>
             /\ \/ GraphAreas = {}
                \/ WindowRegions(First(GraphAreas)) = {} )
           => (result = "CANCELLED" /\ LastReport[1] = "WARNING")

FocusOps == <<"reveal", "hide(unselected=True)", "view_all">>

SelectedAsTargeted ==
    \A c \in Range(currently_visible_fcurves) :
        select[c] <=> CurveFormat(c) \in Range(target_fcurve_name_formats)

\* C9 as stated: a host operator is invoked only after the scan of the whole
\* visible set and only when fcurves_to_show is non-empty, in the order
\* reveal, hide(unselected=True), view_all; when they are invoked a visible
\* curve is selected iff its key is a target key, and no curve outside the
\* visible set has been written.
C9_HostOpsAfterScan ==
    /\ ops # <<>> => (ScanDone /\ fcurves_to_show # <<>>)
    /\ \A k \in 1..Len(ops) : ops[k] = FocusOps[k]
    /\ pc \in {"reveal", "hide", "view_all"} => SelectedAsTargeted
    /\ written \subseteq Range(currently_visible_fcurves)

\* C9 as amended: with a non-empty selection the statement holds; with an
\* empty selection the operator invokes reveal(select=False) and view_all
\* without any scan and writes no select flag itself.
C9_HostOpsAfterScanIfSelected ==
    /\ selected_fcurves_in_editor # <<>> =>
          /\ ops # <<>> => (ScanDone /\ fcurves_to_show # <<>>)
          /\ IsPrefix(ops, FocusOps)
    /\ selected_fcurves_in_editor = <<>> =>
          /\ IsPrefix(ops, <<"reveal(select=False)", "view_all">>)
          /\ written = {}
    /\ pc \in {"reveal", "hide", "view_all"} => SelectedAsTargeted
    /\ pc = "reveal" =>
          \A c \in Curves \ Range(currently_visible_fcurves) : select[c] = select0[c]
    /\ written \subseteq Range(currently_visible_fcurves)

\* The three host operators have run after a scan that hid a curve and left
\* a curve outside the visible set.
C9_Witness ==
    /\ Returned("FINISHED")
    /\ ops = FocusOps
    /\ fcurves_to_hide # <<>>
    /\ Range(currently_visible_fcurves) # Curves

Shared == Range(selected_fcurves_in_editor) \cap Range(currently_visible_fcurves)

\* C10: a curve that is both selected and visible is placed in
\* fcurves_to_show and keeps select = TRUE; when the selection and the
\* visible set share a curve, 'No matching F-Curves found' is never reported.
C10_SelectedVisibleShown ==
    /\ \A c \in Shared : select[c] /\ (ScanDone => c \in Range(fcurves_to_show))
    /\ Shared # {} => <<"INFO", "no_match">> \notin Range(reports)

\* Two selected visible curves with different keys have been scanned.
C10_Witness ==
    /\ ScanDone
    /\ \E c, d \in Shared : CurveFormat(c) # CurveFormat(d)
    /\ Len(fcurves_to_show) >= 2

(***************************************************************************)
(* The lighting-copy operator.  A path is a string; None is the one-element *)
(* sequence NoPath, which no path equals.                                   *)
(***************************************************************************)
NoPath == <<"None">>
PathS == <<"/", "s", "/", "a">>
PathT == <<"/", "t", "/", "a">>
Paths == {PathS, PathT}

\* os.path.basename: what follows the last "/".
Basename(path) ==
    LET slashes == {k \in 1..Len(path) : path[k] = "/"}
    IN  IF slashes = {} THEN path
        ELSE SubSeq(path, (CHOOSE k \in slashes : \A j \in slashes : j <= k) + 1,
                    Len(path))

\* get_studio_light_path: the path of the first light of that name, or None.
GetStudioLightPath(light_name) ==
    LET hits == {k \in 1..Len(studio_lights) : studio_lights[k].name = light_name}
    IN  IF hits = {} THEN NoPath
        ELSE studio_lights[CHOOSE k \in hits : \A j \in hits : k <= j].path

\* not studio_light_path
Falsy(path) == path = NoPath \/ path = <<>>

Preferences ==
    { <<>>,
      << [name |-> "forest", path |-> PathS] >>,
      << [name |-> "forest", path |-> PathS], [name |-> "city", path |-> PathT] >>,
      << [name |-> "city", path |-> <<>>], [name |-> "city", path |-> PathT] >> }

ImageLists ==
    { <<>>,
      << [name |-> <<"a">>, filepath |-> PathS] >>,
      << [name |-> <<"a">>, filepath |-> PathT] >> }

WorldLists ==
    { <<>>,
      << [name |-> "World", use_nodes |-> FALSE, nodes |-> <<>>, links |-> {}] >> }

WorldInit ==
    /\ studio_light \in {"forest", "city"}
    /\ rotate_z \in 0..MaxParam
    /\ blur \in 0..MaxParam
    /\ studio_lights \in Preferences
    /\ disk \in SUBSET Paths
    /\ unreadable \in SUBSET disk
    /\ images \in ImageLists
    /\ worlds \in WorldLists
    /\ scene_world \in 0..Len(worlds)
    /\ wpc = "start"
    /\ studio_light_path = NoPath
    /\ world = 0
    /\ node = <<>>
    /\ wreports = <<>>
    /\ wresult = "NONE"
    /\ worlds0 = worlds
    /\ scene_world0 = scene_world
    /\ FocusIdle /\ KeyIdle /\ PairIdle

WReport(level, msg) == wreports' = Append(wreports, <<level, msg>>)

WReturn(r) == wresult' = r /\ wpc' = "done"

(***************************************************************************)
(* Worlds, nodes and links as the host keeps them.                         *)
(***************************************************************************)
NoiseScale == 30000

\* bpy.data.worlds.new(name)
NewWorld(name) == [name |-> name, use_nodes |-> FALSE, nodes |-> <<>>, links |-> {}]

Link(from, out, to, in) ==
    [from_node |-> from, from_socket |-> out, to_node |-> to, to_socket |-> in]

\* world.use_nodes = True: the host gives the tree a Background and a World
\* Output node, linked.
UseNodes(w) ==
    [w EXCEPT !.use_nodes = TRUE,
              !.nodes = << [type |-> "ShaderNodeBackground"],
                           [type |-> "ShaderNodeOutputWorld"] >>,
              !.links = {Link(1, "Background", 2, "Surface")}]

\* A variant that clears nothing.
ClearNodesSkipped(w) == w

\* nodes.clear(): the nodes go, and their links with them.
ClearNodes(w) == [w EXCEPT !.nodes = <<>>, !.links = {}]

\* nodes.new: the node is appended to the tree of the new world.
NodesNew(ws, n) == [ws EXCEPT ![world].nodes = Append(@, n)]

\* links.new: an input socket holds one link, the new one replaces it.
LinksNew(ws, l) ==
    [ws EXCEPT ![world].links =
        {x \in @ : ~(x.to_node = l.to_node /\ x.to_socket = l.to_socket)} \cup {l}]

\* The position nodes.new gives the next node.
NextNode(ws) == Len(ws[world].nodes) + 1

(***************************************************************************)
(* execute, lines 42-47: resolve the studio light.                         *)
(***************************************************************************)
Resolve ==
    /\ wpc = "start"
    /\ studio_light_path' = GetStudioLightPath(studio_light)
    /\ IF Falsy(studio_light_path') \/ studio_light_path' \notin disk
       THEN WReport("ERROR", "no_path") /\ WReturn("CANCELLED")
       ELSE wpc' = "setup" /\ UNCHANGED <<wreports, wresult>>
    /\ UNCHANGED <<shadingVars, dataVars, world, node, wHistVars, notWorld>>

(***************************************************************************)
(* execute, lines 50-64: the new world, assigned to the scene, its tree    *)
(* cleared, and the environment texture node.                              *)
(***************************************************************************)
SetupWorld ==
    /\ wpc = "setup"
    /\ worlds' = Append(worlds,
                        ClearNodes(UseNodes(NewWorld(<<"Preview", studio_light>>))))
    /\ world' = Len(worlds) + 1
    /\ scene_world' = Len(worlds) + 1
    /\ wpc' = "env"
    /\ UNCHANGED <<shadingVars, images, studio_light_path, node, wreports,
                   wresult, wHistVars, notWorld>>

AddEnvironment ==
    /\ wpc = "env"
    /\ worlds' = NodesNew(worlds, [type |-> "ShaderNodeTexEnvironment", image |-> 0])
    /\ node' = [env_node |-> NextNode(worlds)]
    /\ wpc' = "image"
    /\ UNCHANGED <<shadingVars, images, scene_world, studio_light_path,
                   world, wreports, wresult, wHistVars, notWorld>>

(***************************************************************************)
(* execute, lines 67-82: the image.                                        *)
(***************************************************************************)
ImageNamed(name) == {k \in 1..Len(images) : images[k].name = name}

ImageAt(path) == {k \in 1..Len(images) : images[k].filepath = path}

\* The image of that name is in bpy.data.images with that very filepath.
Reusable ==
    \E k \in ImageNamed(Basename(studio_light_path)) :
        images[k].filepath = studio_light_path

\* bpy.data.images.load(path, check_existing=True) has to read the file.
MustRead == ~Reusable /\ ImageAt(studio_light_path) = {}

\* The name the host gives a new image: the file name, or the file name
\* with a suffix when that name is taken.
FreshName(name) == IF ImageNamed(name) = {} THEN name ELSE Append(name, ".001")

SetImage(ws, k) == [ws EXCEPT ![world].nodes[node.env_node].image = k]

LoadImage ==
    /\ wpc = "image"
    /\ ~(MustRead /\ studio_light_path \in unreadable)
    /\ IF ~MustRead
       THEN /\ worlds' = SetImage(worlds, CHOOSE k \in ImageAt(studio_light_path) : TRUE)
            /\ UNCHANGED images
       ELSE /\ images' = Append(images,
                            [name |-> FreshName(Basename(studio_light_path)),
                             filepath |-> studio_light_path])
            /\ worlds' = SetImage(worlds, Len(images) + 1)
    /\ wpc' = "background"
    /\ UNCHANGED <<shadingVars, scene_world, studio_light_path, world, node,
                   wreports, wresult, wHistVars, notWorld>>

\* load raises: the except clause reports, and execute returns CANCELLED.
LoadImageFails ==
    /\ wpc = "image"
    /\ MustRead /\ studio_light_path \in unreadable
    /\ WReport("ERROR", "load_failed")
    /\ WReturn("CANCELLED")
    /\ UNCHANGED <<shadingVars, dataVars, studio_light_path, world, node,
                   wHistVars, notWorld>>

(***************************************************************************)
(* execute, lines 84-157: the rest of the tree.                            *)
(***************************************************************************)
\* Background and World Output, Env -> Background -> Output.
AddBackgroundOutput ==
    /\ wpc = "background"
    /\ LET bg == NextNode(worlds)
           w1 == NodesNew(worlds, [type |-> "ShaderNodeBackground"])
           w2 == LinksNew(w1, Link(node.env_node, "Color", bg, "Color"))
           w3 == NodesNew(w2, [type |-> "ShaderNodeOutputWorld"])
       IN  /\ worlds' = LinksNew(w3, Link(bg, "Background", bg + 1, "Surface"))
           /\ node' = [env_node |-> node.env_node, bg_node |-> bg,
                       output_node |-> bg + 1]
    /\ wpc' = "mapping"
    /\ UNCHANGED <<shadingVars, images, scene_world, studio_light_path,
                   world, wreports, wresult, wHistVars, notWorld>>

\* Texture Coordinate and Mapping, TexCoord -> Mapping.
AddMapping ==
    /\ wpc = "mapping"
    /\ LET tc == NextNode(worlds)
           w1 == NodesNew(worlds, [type |-> "ShaderNodeTexCoord"])
           w2 == NodesNew(w1, [type |-> "ShaderNodeMapping",
                               rotation |-> <<0, 0, 0>>])
       IN  /\ worlds' = LinksNew(w2, Link(tc, "Generated", tc + 1, "Vector"))
           /\ node' = [env_node |-> node.env_node, bg_node |-> node.bg_node,
                       output_node |-> node.output_node,
                       tex_coord |-> tc, mapping |-> tc + 1]
    /\ wpc' = "blur"
    /\ UNCHANGED <<shadingVars, images, scene_world, studio_light_path,
                   world, wreports, wresult, wHistVars, notWorld>>

\* The Mix node, its factor set from the viewport blur.
AddBlur ==
    /\ wpc = "blur"
    /\ worlds' = NodesNew(worlds, [type |-> "ShaderNodeMix", data_type |-> "VECTOR",
                                   label |-> "Blur", factor |-> blur])
    /\ node' = [env_node |-> node.env_node, bg_node |-> node.bg_node,
                output_node |-> node.output_node, tex_coord |-> node.tex_coord,
                mapping |-> node.mapping, blur_node |-> NextNode(worlds)]
    /\ wpc' = "noise"
    /\ UNCHANGED <<shadingVars, images, scene_world, studio_light_path,
                   world, wreports, wresult, wHistVars, notWorld>>

\* Noise Texture and Vector Math (subtract 0.5), Noise -> Subtract.
AddNoise ==
    /\ wpc = "noise"
    /\ LET ns == NextNode(worlds)
           w1 == NodesNew(worlds, [type |-> "ShaderNodeTexNoise", scale |-> NoiseScale])
           w2 == NodesNew(w1, [type |-> "ShaderNodeVectorMath",
                               operation |-> "SUBTRACT",
                               operand |-> <<"0.5", "0.5", "0.5">>])
       IN  /\ worlds' = LinksNew(w2, Link(ns, "Color", ns + 1, "0"))
           /\ node' = [env_node |-> node.env_node, bg_node |-> node.bg_node,
                       output_node |-> node.output_node,
                       tex_coord |-> node.tex_coord, mapping |-> node.mapping,
                       blur_node |-> node.blur_node,
                       noise_node |-> ns, sub_node |-> ns + 1]
    /\ wpc' = "wire"
    /\ UNCHANGED <<shadingVars, images, scene_world, studio_light_path,
                   world, wreports, wresult, wHistVars, notWorld>>

\* A variant that takes input 4 for both A and B.
BlurLinksSameInput(ws) ==
    LinksNew(
        LinksNew(
            LinksNew(ws, Link(node.sub_node, "Vector", node.blur_node, "4")),
            Link(node.mapping, "Vector", node.blur_node, "4")),
        Link(node.blur_node, "1", node.env_node, "Vector"))

\* Subtract -> Blur B (input 5), Mapping -> Blur A (input 4),
\* Blur (output 1) -> Environment Vector.
BlurLinks(ws) ==
    LinksNew(
        LinksNew(
            LinksNew(ws, Link(node.sub_node, "Vector", node.blur_node, "5")),
            Link(node.mapping, "Vector", node.blur_node, "4")),
        Link(node.blur_node, "1", node.env_node, "Vector"))

WireBlur ==
    /\ wpc = "wire"
    /\ worlds' = BlurLinks(worlds)
    /\ wpc' = "rotation"
    /\ UNCHANGED <<shadingVars, images, scene_world, studio_light_path,
                   world, node, wreports, wresult, wHistVars, notWorld>>

\* The Z rotation of the Mapping node, the report, FINISHED.
ApplyRotation ==
    /\ wpc = "rotation"
    /\ worlds' = [worlds EXCEPT ![world].nodes[node.mapping].rotation[3] = rotate_z]
    /\ WReport("INFO", "copied")
    /\ WReturn("FINISHED")
    /\ UNCHANGED <<shadingVars, images, scene_world, studio_light_path,
                   world, node, wHistVars, notWorld>>

WorldNext ==
    \/ Resolve \/ SetupWorld \/ AddEnvironment \/ LoadImage \/ LoadImageFails
    \/ AddBackgroundOutput \/ AddMapping \/ AddBlur \/ AddNoise \/ WireBlur
    \/ ApplyRotation

SpecWorld == WorldInit /\ [][WorldNext]_vars

(***************************************************************************)
(* Claims about the lighting-copy operator.                                *)
(***************************************************************************)
WReturned(r) == wpc = "done" /\ wresult = r

\* The tree of the world execute made.
Tree == worlds[world]

TreeNodes == 1..Len(Tree.nodes)

Successors(S) == {l.to_node : l \in {x \in Tree.links : x.from_node \in S}}

\* The nodes a directed path of at least one link leads to from n.
RECURSIVE ReachFrom(_, _)
ReachFrom(S, k) ==
    IF k = 0 THEN S ELSE ReachFrom(S \cup Successors(S), k - 1)

Reach(n) == ReachFrom(Successors({n}), Len(Tree.nodes))

Feeds(from, to, in) ==
    \E l \in Tree.links : l.from_node = from /\ l.to_node = to /\ l.to_socket = in

\* The path resolves and exists, and the image is there or can be read.
Loadable ==
    LET path == GetStudioLightPath(studio_light)
    IN  /\ ~Falsy(path)
        /\ path \in disk
        /\ \/ path \notin unreadable
           \/ \E k \in 1..Len(images) : images[k].filepath = path

\* C5: every invocation that returns CANCELLED leaves scene.world and the
\* worlds of the file as they were at invocation.
C5_CancelledKeepsWorld ==
    WReturned("CANCELLED") => (scene_world = scene_world0 /\ worlds = worlds0)

NodeTypes == [k \in TreeNodes |-> Tree.nodes[k].type]

\* C7 as stated: with a resolvable, existing path and a successful load the
\* operator returns FINISHED with one new world of exactly 6 nodes, the
\* mapping node's Z rotation and the blur node's factor copied from the
\* viewport shading.
C7_SixNodes ==
    (wpc = "done" /\ Loadable) =>
        /\ wresult = "FINISHED"
        /\ Len(worlds) = Len(worlds0) + 1
        /\ Len(Tree.nodes) = 6
        /\ Tree.nodes[node.mapping].rotation[3] = rotate_z
        /\ Tree.nodes[node.blur_node].factor = blur

\* C7 as amended: the new world has exactly 8 nodes (environment texture,
\* background, world output, texture coordinate, mapping, mix, noise, vector
\* math); the rest as stated, the two copied values being the only ones
\* that vary with the viewport shading.
C7_EightNodes ==
    (wpc = "done" /\ Loadable) =>
        /\ wresult = "FINISHED"
        /\ Len(worlds) = Len(worlds0) + 1
        /\ SubSeq(worlds, 1, Len(worlds0)) = worlds0
        /\ NodeTypes = << "ShaderNodeTexEnvironment", "ShaderNodeBackground",
                          "ShaderNodeOutputWorld", "ShaderNodeTexCoord",
                          "ShaderNodeMapping", "ShaderNodeMix",
                          "ShaderNodeTexNoise", "ShaderNodeVectorMath" >>
        /\ Tree.nodes[node.mapping].rotation = <<0, 0, rotate_z>>
        /\ Tree.nodes[node.blur_node].factor = blur
        /\ Tree.nodes[node.noise_node].scale = NoiseScale
        /\ Tree.nodes[node.sub_node].operand = <<"0.5", "0.5", "0.5">>
        /\ images[Tree.nodes[node.env_node].image].filepath
              = GetStudioLightPath(studio_light)

\* A finished invocation that copied a rotation and a blur other than the
\* defaults, beside a world that was there before.
C7_Witness ==
    /\ WReturned("FINISHED")
    /\ rotate_z = 1 /\ blur = 1
    /\ worlds0 # <<>>
    /\ Len(Tree.nodes) = 8

\* C8: on FINISHED the links of the new world form an acyclic graph in which
\* every node has a directed path to the world output node, and the
\* environment texture's Vector input is fed by the blur node, whose inputs
\* are the mapping node and the noise with 0.5 subtracted.
C8_Dag ==
    WReturned("FINISHED") =>
        /\ \A n \in TreeNodes : n \notin Reach(n)
        /\ \A n \in TreeNodes \ {node.output_node} : node.output_node \in Reach(n)
        /\ Tree.nodes[node.output_node].type = "ShaderNodeOutputWorld"
        /\ \A l \in Tree.links : l.from_node \in TreeNodes /\ l.to_node \in TreeNodes
        /\ Feeds(node.blur_node, node.env_node, "Vector")
        /\ Feeds(node.mapping, node.blur_node, "4")
        /\ Feeds(node.sub_node, node.blur_node, "5")
        /\ Feeds(node.noise_node, node.sub_node, "0")
        /\ Tree.nodes[node.sub_node].operation = "SUBTRACT"

\* A finished invocation whose tree holds the seven links.
C8_Witness ==
    /\ WReturned("FINISHED")
    /\ Cardinality(Tree.links) = 7
    /\ node.output_node \in Reach(node.noise_node)

(***************************************************************************)
(* SpecKey: derive the name format of a path, then derive the name format  *)
(* of that key with the same index.                                        *)
(***************************************************************************)
KeyInit ==
    /\ kpc = "path"
    /\ kpath \in StringsUpTo(Alphabet, MaxLen)
    /\ kindex \in 0..MaxIndex
    /\ key1 = <<>>
    /\ key2 = <<>>
    /\ PairIdle
    /\ FocusIdle
    /\ WorldIdle

Derive ==
    /\ kpc = "path"
    /\ key1' = NameFormat(kpath, kindex)
    /\ kpc' = "key"
    /\ UNCHANGED <<kpath, kindex, key2, notKey>>

DeriveAgain ==
    /\ kpc = "key"
    /\ key2' = NameFormat(key1, kindex)
    /\ kpc' = "rekeyed"
    /\ UNCHANGED <<kpath, kindex, key1, notKey>>

KeyNext == Derive \/ DeriveAgain

SpecKey == KeyInit /\ [][KeyNext]_vars

(***************************************************************************)
(* SpecPair: two curves P and Q whose data paths are the same text around  *)
(* one bracketed or parenthesized substring and differ at most in the      *)
(* quoted text inside it, as pose.bones["Arm"].location and                *)
(* pose.bones["Leg"].location do.  The name format of each is derived as   *)
(* execute derives it.                                                     *)
(***************************************************************************)
Outside == {<<>>, <<"a">>}
Brackets == {<<"[", "]">>, <<"(", ")">>}
InnerTexts == StringsUpTo(Alphabet, MaxNameLen)

\* pre ["inner"] post, or pre ("inner") post
Bracketed(pre, br, inner, post) ==
    pre \o <<br[1], "\"">> \o inner \o <<"\"", br[2]>> \o post

PairInit ==
    /\ ppc = "paths"
    /\ \E pre \in Outside, post \in Outside, br \in Brackets :
         \E x \in InnerTexts, y \in InnerTexts :
            /\ pathP = Bracketed(pre, br, x, post)
            /\ pathQ = Bracketed(pre, br, y, post)
    /\ indexP \in 0..MaxIndex
    /\ indexQ \in 0..MaxIndex
    /\ keyP = <<>>
    /\ keyQ = <<>>
    /\ KeyIdle
    /\ FocusIdle
    /\ WorldIdle

DeriveP ==
    /\ ppc = "paths"
    /\ keyP' = NameFormat(pathP, indexP)
    /\ ppc' = "keyP"
    /\ UNCHANGED <<pathP, pathQ, indexP, indexQ, keyQ, notPair>>

DeriveQ ==
    /\ ppc = "keyP"
    /\ keyQ' = NameFormat(pathQ, indexQ)
    /\ ppc' = "keys"
    /\ UNCHANGED <<pathP, pathQ, indexP, indexQ, keyP, notPair>>

PairNext == DeriveP \/ DeriveQ

SpecPair == PairInit /\ [][PairNext]_vars

(***************************************************************************)
(* Claims about the name-format derivation.                                *)
(***************************************************************************)
Count(s, c) == Cardinality({k \in 1..Len(s) : s[k] = c})

\* C2: two curves whose data paths differ only in the text inside a
\* bracketed or parenthesized substring and whose array_index is the same
\* get equal keys, and two curves with the same data path and different
\* array_index get different keys.
C2_KeysIgnoreBracketedText ==
    ppc = "keys" =>
        /\ indexP = indexQ => keyP = keyQ
        /\ (pathP = pathQ /\ indexP # indexQ) => keyP # keyQ

\* C3 as stated: for every path and index, deriving the key of the derived
\* key with the same index returns that key unchanged.
C3_Idempotent == kpc = "rekeyed" => key2 = key1

\* C3 as amended: the derivation is idempotent on every path whose stripped
\* form holds no '[', that is, whose derived key holds no '[' but the one the
\* derivation appended.
C3_IdempotentWhenClosed ==
    (kpc = "rekeyed" /\ Count(key1, "[") = 1) => key2 = key1

\* A path with a bracketed substring has been keyed twice, with one result.
C3_Witness ==
    /\ kpc = "rekeyed"
    /\ kpath = <<"a", "[", "a", "]">>
    /\ key1 = <<"a", "[", "0", "]">>
    /\ key2 = key1

=============================================================================
